---- MODULE Spec2Model ----
\* Model of the calibre editor plugin "Bulk Image Resizer" (src/main.py):
\* the magic-byte detector, the container scan, the timer-driven job runner
\* (do_one), the finalizer (do_end) and the host objects they talk to.
EXTENDS Integers, Sequences, FiniteSets, TLC

VARIABLES
    book_open,     \* current_container() is not None
    files,         \* the container: sequence of [name, data, readable], in mime_map order
    config,        \* self.config: NoConfig or [encoding_type]
    job_data,      \* self.job_data: NoJob or [images, all_images]
    progress,      \* the QProgressDialog of the run: NoProgress or the dialog
    timer_active,  \* self.pd_timer.isActive()
    connections,   \* number of connections of pd_timer.timeout to do_one
    stack,         \* the call stack below the running event loop (see Frame)
    attempted,     \* this run: <<[name, transcoded, replaced]>>, one per image popped by do_one
    warned,        \* this run: names reported through warning_dialog, in order
    ends,          \* this run: one record per invocation of do_end
    hooks,         \* this invocation: host hooks called, in order
    cancel_seen,   \* this run: do_one has observed progress.wasCanceled()
    cancel_clicked,\* this run: the user has pressed Stop
    shown,         \* this invocation: messages actually displayed to the user
    invocations,   \* number of confirmed invocations of ask_user so far
    empty_aborts,  \* number of invocations that found no image
    det_data,      \* detector harness: the bytes handed to get_image_type
    det_result,    \* detector harness: what get_image_type returned
    det_pc         \* detector harness: "idle", "ready" or "done"

vars == <<book_open, files, config, job_data, progress, timer_active,
          connections, stack, attempted, warned, ends, hooks, cancel_seen,
          cancel_clicked, shown, invocations, empty_aborts,
          det_data, det_result, det_pc>>

runVars == <<book_open, files, config, job_data, progress, timer_active,
             connections, stack, attempted, warned, ends, hooks, cancel_seen,
             cancel_clicked, shown, invocations, empty_aborts>>

detVars == <<det_data, det_result, det_pc>>

\* ---------------------------------------------------------------- bounds
\* Most files a container holds.
MaxFiles == 3
\* Most confirmed invocations of the tool on one tool instance.
MaxRuns == 2
\* Longest byte string handed to the detector harness.
MaxDataLen == 14

None == "None"

\* ------------------------------------------------------------ byte strings
HeaderLen == 12

JPEG_SIG == <<255, 216, 255>>
PNG_SIG == <<137, 80, 78, 71, 13, 10, 26, 10>>
GIF87_SIG == <<71, 73, 70, 56, 55, 97>>
GIF89_SIG == <<71, 73, 70, 56, 57, 97>>
RIFF_SIG == <<82, 73, 70, 70>>
WEBP_SIG == <<87, 69, 66, 80>>

Min(a, b) == IF a < b THEN a ELSE b

\* data[:n]
Take(data, n) == SubSeq(data, 1, Min(n, Len(data)))

\* data[lo:hi] of Python (0-based, hi exclusive, clipped to the length)
Slice(data, lo, hi) == SubSeq(data, lo + 1, Min(hi, Len(data)))

\* bytes.startswith
startswith(data, prefix) ==
    /\ Len(data) >= Len(prefix)
    /\ SubSeq(data, 1, Len(prefix)) = prefix

get_image_type_no_gif89(data) ==
    IF Len(data) < HeaderLen THEN None
    ELSE IF startswith(data, JPEG_SIG) THEN "jpeg"
    ELSE IF startswith(data, PNG_SIG) THEN "png"
    ELSE IF startswith(data, GIF87_SIG) THEN "gif"
    ELSE IF startswith(data, RIFF_SIG) /\ Slice(data, 8, 12) = WEBP_SIG THEN "webp"
    ELSE None

get_image_type_no_length_check(data) ==
    IF startswith(data, JPEG_SIG) THEN "jpeg"
    ELSE IF startswith(data, PNG_SIG) THEN "png"
    ELSE IF startswith(data, GIF87_SIG) \/ startswith(data, GIF89_SIG) THEN "gif"
    ELSE IF startswith(data, RIFF_SIG) /\ Slice(data, 8, 12) = WEBP_SIG THEN "webp"
    ELSE None

get_image_type(data) ==
    IF Len(data) < HeaderLen THEN None
    ELSE IF startswith(data, JPEG_SIG) THEN "jpeg"
    ELSE IF startswith(data, PNG_SIG) THEN "png"
    ELSE IF startswith(data, GIF87_SIG) \/ startswith(data, GIF89_SIG) THEN "gif"
    ELSE IF startswith(data, RIFF_SIG) /\ Slice(data, 8, 12) = WEBP_SIG THEN "webp"
    ELSE None

\* ------------------------------------------------------------------ names
\* A file name is a sequence of one-character strings.
RECURSIVE rfind(_, _, _)
\* str.rfind as a 1-based index, 0 when absent (Python: 0-based, -1)
rfind(p, ch, i) ==
    IF i = 0 THEN 0
    ELSE IF p[i] = ch THEN i
    ELSE rfind(p, ch, i - 1)

\* os.path.splitext(p)[0] on a POSIX host: the extension starts at the last
\* dot of the last path component, leading dots of the component apart.
splitext_root(p) ==
    LET sepIndex == rfind(p, "/", Len(p))
        dotIndex == rfind(p, ".", Len(p))
    IN  IF /\ dotIndex > sepIndex
           /\ \E i \in (sepIndex + 1)..(dotIndex - 1) : p[i] # "."
        THEN SubSeq(p, 1, dotIndex - 1)
        ELSE p

replace_extension_append(file_name, new_extension) ==
    file_name \o new_extension

replace_extension(file_name, new_extension) ==
    splitext_root(file_name) \o new_extension

\* -------------------------------------------------------------- container
Fill(n, b) == [i \in 1..n |-> b]

\* File contents, each longer than the 12 bytes the scan reads.
JpegBytes == JPEG_SIG \o Fill(11, 0)
PngBytes == PNG_SIG \o Fill(6, 0)
GifBytes == GIF89_SIG \o Fill(8, 0)
WebpBytes == RIFF_SIG \o Fill(4, 0) \o WEBP_SIG \o Fill(2, 0)
TextBytes == <<104, 101, 108, 108, 111, 32, 119, 111, 114, 108, 100, 33, 10, 10>>
ShortJpegBytes == JPEG_SIG \o Fill(2, 0)

\* The files a book may hold: [name, data, readable]. readable = FALSE is a
\* manifest entry whose file container.open cannot open.
Library == <<
    [name |-> <<"a", ".", "d", "a", "t">>, data |-> JpegBytes, readable |-> TRUE],
    [name |-> <<"b", ".", "p", "n", "g">>, data |-> PngBytes, readable |-> TRUE],
    [name |-> <<"c", ".", "t", "x", "t">>, data |-> TextBytes, readable |-> TRUE],
    [name |-> <<"a", ".", "w", "e", "b", "p">>, data |-> WebpBytes, readable |-> TRUE],
    [name |-> <<"a", ".", "j", "p", "g">>, data |-> ShortJpegBytes, readable |-> TRUE],
    [name |-> <<"x", ".", "g", "i", "f">>, data |-> GifBytes, readable |-> FALSE],
    [name |-> <<"i", ".", "d", "/", "x">>, data |-> GifBytes, readable |-> TRUE] >>

RECURSIVE Pick(_, _)
\* the entries of Library whose index is in S, in Library order
Pick(S, i) ==
    IF i > Len(Library) THEN <<>>
    ELSE (IF i \in S THEN <<Library[i]>> ELSE <<>>) \o Pick(S, i + 1)

Books == {Pick(S, 1) : S \in {T \in SUBSET (1..Len(Library)) : Cardinality(T) <= MaxFiles}}

Names(fs) == {fs[i].name : i \in 1..Len(fs)}

replace_every_file(fs, name, data) ==
    [i \in 1..Len(fs) |-> [fs[i] EXCEPT !.data = data]]

\* container.replace(name, data)
replace(fs, name, data) ==
    [i \in 1..Len(fs) |-> IF fs[i].name = name THEN [fs[i] EXCEPT !.data = data] ELSE fs[i]]

\* ---------------------------------------------------------------- settings
\* What the settings dialog can hand back as encoding_type: the three
\* encodings do_end knows, and one it does not.
EncodingTypes == {"WebP", "JPEG", "PNG", "GIF"}

\* compress_image: the transcoder's output for a target encoding.
compress_image(enc) ==
    IF enc = "WebP" THEN RIFF_SIG \o Fill(4, 1) \o WEBP_SIG \o Fill(2, 1)
    ELSE IF enc = "JPEG" THEN JPEG_SIG \o Fill(11, 1)
    ELSE IF enc = "PNG" THEN PNG_SIG \o Fill(6, 1)
    ELSE GIF89_SIG \o Fill(8, 1)

\* ------------------------------------------------------------------- scan
RECURSIVE scan_skip_unreadable_abort(_, _)
scan_skip_unreadable_abort(fs, i) ==
    IF i > Len(fs) THEN <<>>
    ELSE IF ~fs[i].readable THEN <<>>
    ELSE IF get_image_type(Take(fs[i].data, HeaderLen)) # None
         THEN <<fs[i].name>> \o scan_skip_unreadable_abort(fs, i + 1)
         ELSE scan_skip_unreadable_abort(fs, i + 1)

RECURSIVE scan_from(_, _)
\* the loop of get_images_from_collection from entry i on
scan_from(fs, i) ==
    IF i > Len(fs) THEN <<>>
    ELSE IF ~fs[i].readable THEN scan_from(fs, i + 1)
    ELSE IF get_image_type(Take(fs[i].data, HeaderLen)) # None
         THEN <<fs[i].name>> \o scan_from(fs, i + 1)
         ELSE scan_from(fs, i + 1)

get_images_from_collection_abort(fs) == scan_skip_unreadable_abort(fs, 1)

get_images_from_collection(fs) == scan_from(fs, 1)

\* -------------------------------------------------------------- rename map
EmptyMap == [x \in {} |-> x]

put(m, k, v) == [x \in DOMAIN m \cup {k} |-> IF x = k THEN v ELSE m[x]]

EXT_WEBP == <<".", "w", "e", "b", "p">>
EXT_JPG == <<".", "j", "p", "g">>
EXT_PNG == <<".", "p", "n", "g">>

RECURSIVE build_replace_map_keep_identity(_, _, _, _)
build_replace_map_keep_identity(all_images, encoding_type, i, acc) ==
    IF i > Len(all_images) THEN acc
    ELSE IF encoding_type \notin {"WebP", "JPEG", "PNG"} THEN acc
    ELSE LET name == all_images[i]
             value == IF encoding_type = "WebP" THEN replace_extension(name, EXT_WEBP)
                      ELSE IF encoding_type = "JPEG" THEN replace_extension(name, EXT_JPG)
                      ELSE replace_extension(name, EXT_PNG)
         IN  build_replace_map_keep_identity(all_images, encoding_type, i + 1,
                                             put(acc, name, value))

RECURSIVE build_replace_map_partial(_, _, _, _)
build_replace_map_partial(all_images, encoding_type, i, acc) ==
    IF i > Len(all_images) THEN acc
    ELSE LET name == all_images[i]
             value == IF encoding_type = "WebP" THEN replace_extension(name, EXT_WEBP)
                      ELSE IF encoding_type = "JPEG" THEN replace_extension(name, EXT_JPG)
                      ELSE replace_extension(name, EXT_PNG)
         IN  build_replace_map_partial(all_images, encoding_type, i + 1,
                                       IF name # value THEN put(acc, name, value) ELSE acc)

RECURSIVE build_replace_map(_, _, _, _)
\* the loop of do_end from entry i on, acc the replace_map built so far
build_replace_map(all_images, encoding_type, i, acc) ==
    IF i > Len(all_images) THEN acc
    ELSE IF encoding_type \notin {"WebP", "JPEG", "PNG"} THEN acc
    ELSE LET name == all_images[i]
             value == IF encoding_type = "WebP" THEN replace_extension(name, EXT_WEBP)
                      ELSE IF encoding_type = "JPEG" THEN replace_extension(name, EXT_JPG)
                      ELSE replace_extension(name, EXT_PNG)
         IN  build_replace_map(all_images, encoding_type, i + 1,
                               IF name # value THEN put(acc, name, value) ELSE acc)

\* rename_files refuses a map whose destinations overlap its sources, exist
\* in the container already, or repeat; it checks before it renames anything.
rename_files_raises(fs, m) ==
    LET keys == DOMAIN m
        vals == {m[k] : k \in keys}
    IN  \/ keys \cap vals # {}
        \/ \E k \in keys : m[k] \in Names(fs)
        \/ Cardinality(vals) # Cardinality(keys)

rename_files(fs, m) ==
    [i \in 1..Len(fs) |->
        IF fs[i].name \in DOMAIN m THEN [fs[i] EXCEPT !.name = m[fs[i].name]] ELSE fs[i]]

\* the replace_map do_end builds from all_images and the target encoding
replace_map_keep_identity(all_images, encoding_type) ==
    build_replace_map_keep_identity(all_images, encoding_type, 1, EmptyMap)

replace_map_partial(all_images, encoding_type) ==
    build_replace_map_partial(all_images, encoding_type, 1, EmptyMap)

replace_map(all_images, encoding_type) ==
    build_replace_map(all_images, encoding_type, 1, EmptyMap)

\* --------------------------------------------------------- progress dialog
\* create_progres_dialog(image_count)
create_progres_dialog(image_count) ==
    [created |-> TRUE, maximum |-> image_count + 1, value |-> 0, canceled |-> FALSE]

\* QProgressDialog.setValue: value is the last value the program reported.
\* The dialog is created with Qt's defaults, so autoReset is on: reaching the
\* maximum resets the dialog, and a reset dialog no longer reports
\* wasCanceled().
setValue(p, v) ==
    [p EXCEPT !.value = v,
              !.canceled = IF v = p.maximum THEN FALSE ELSE @]

\* ------------------------------------------------------------- call stack
\* The event loop runs at top level (stack empty) and again inside every open
\* warning dialog (warning_dialog(..., show=True) executes the dialog).
\*   [kind |-> "emit",   left |-> n]  a timeout emission with n slot calls to go
\*   [kind |-> "dialog", name |-> x]  do_one waiting in the warning dialog for x
EmitFrame(n) == [kind |-> "emit", left |-> n, name |-> <<>>]
DialogFrame(name) == [kind |-> "dialog", left |-> 0, name |-> name]

Top(stk) == stk[Len(stk)]
Pop(stk) == SubSeq(stk, 1, Len(stk) - 1)

\* an emission whose slots have all returned is over
Unwind(stk) ==
    IF stk # <<>> /\ Top(stk).kind = "emit" /\ Top(stk).left = 0 THEN Pop(stk) ELSE stk

EventLoopRunning == IF stack = <<>> THEN TRUE ELSE Top(stack).kind = "dialog"
SlotPending == stack # <<>> /\ Top(stack).kind = "emit"
Idle == stack = <<>> /\ ~timer_active

\* ------------------------------------------------------------ tool state
\* __init__: config and job_data are None, the timer has no connection yet.
NoConfig == [assigned |-> FALSE, encoding_type |-> None]
NoJob == [assigned |-> FALSE, images |-> <<>>, all_images |-> <<>>]
NoProgress == [created |-> FALSE, maximum |-> 0, value |-> 0, canceled |-> FALSE]

Init ==
    /\ book_open \in BOOLEAN
    /\ files \in (IF book_open THEN Books ELSE {<<>>})
    /\ config = NoConfig
    /\ job_data = NoJob
    /\ progress = NoProgress
    /\ timer_active = FALSE
    /\ connections = 0
    /\ stack = <<>>
    /\ attempted = <<>>
    /\ warned = <<>>
    /\ ends = <<>>
    /\ hooks = <<>>
    /\ cancel_seen = FALSE
    /\ cancel_clicked = FALSE
    /\ shown = {}
    /\ invocations = 0
    /\ empty_aborts = 0
    /\ det_data = <<>>
    /\ det_result = None
    /\ det_pc = "idle"

mimify_images_no_empty_check ==
    LET images == get_images_from_collection(files)
    IN  /\ progress' = create_progres_dialog(Len(images))
        /\ job_data' = [assigned |-> TRUE, images |-> images, all_images |-> images]
        /\ connections' = connections + 1
        /\ timer_active' = TRUE
        /\ attempted' = <<>>
        /\ warned' = <<>>
        /\ ends' = <<>>
        /\ cancel_seen' = FALSE
        /\ cancel_clicked' = FALSE
        /\ UNCHANGED empty_aborts

\* mimify_images, after ask_user has stored the settings and called the
\* commit and savepoint hooks. With no image found it builds a QMessageBox
\* and returns without showing or executing it.
mimify_images ==
    LET images == get_images_from_collection(files)
    IN  IF Len(images) = 0
        THEN /\ empty_aborts' = empty_aborts + 1
             /\ UNCHANGED <<job_data, progress, timer_active, connections,
                            attempted, warned, ends, cancel_seen, cancel_clicked>>
        ELSE /\ progress' = create_progres_dialog(Len(images))
             /\ job_data' = [assigned |-> TRUE, images |-> images, all_images |-> images]
             /\ connections' = connections + 1
             /\ timer_active' = TRUE
             /\ attempted' = <<>>
             /\ warned' = <<>>
             /\ ends' = <<>>
             /\ cancel_seen' = FALSE
             /\ cancel_clicked' = FALSE
             /\ UNCHANGED empty_aborts

pre_batch_hooks_swapped == <<"add_savepoint", "commit_all_editors_to_container">>

\* the host hooks ask_user calls, in order, before mimify_images
pre_batch_hooks == <<"commit_all_editors_to_container", "add_savepoint">>

\* The user triggers the tool's action. The editor is idle: during a run its
\* window is blocked by the window-modal progress dialog.
ask_user ==
    /\ Idle
    /\ IF ~book_open
       THEN /\ shown' = shown \cup {"No book open"}
            /\ UNCHANGED <<book_open, files, config, job_data, progress, timer_active,
                           connections, stack, attempted, warned, ends, hooks,
                           cancel_seen, cancel_clicked, invocations, empty_aborts>>
       ELSE \E accepted \in BOOLEAN, encoding_type \in EncodingTypes :
                IF ~accepted
                THEN UNCHANGED runVars
                ELSE /\ invocations < MaxRuns
                     /\ invocations' = invocations + 1
                     /\ config' = [assigned |-> TRUE, encoding_type |-> encoding_type]
                     /\ hooks' = pre_batch_hooks
                     /\ shown' = {}
                     /\ mimify_images
                     /\ UNCHANGED <<book_open, files, stack>>
    /\ UNCHANGED detVars

\* do_end; an exception of rename_files leaves it (and do_one) at line 154
do_end ==
    LET encoding_type == config.encoding_type
        all_images == job_data.all_images
        m == replace_map(all_images, encoding_type)
        raises == rename_files_raises(files, m)
    IN  /\ ends' = Append(ends, [all_images |-> all_images,
                                 encoding_type |-> encoding_type,
                                 replace_map |-> m,
                                 raised |-> raises])
        /\ IF raises
           THEN /\ hooks' = Append(hooks, "rename_files")
                /\ shown' = shown \cup {"Unhandled exception"}
                /\ UNCHANGED <<files, progress>>
           ELSE /\ files' = rename_files(files, m)
                /\ progress' = setValue(progress, Len(all_images) + 1)
                /\ hooks' = hooks \o <<"rename_files", "show_current_diff",
                                       "apply_container_update_to_gui">>
                /\ UNCHANGED shown

pop_rest_keeps_last(images) == images

pop_rest_drops_first(images) == SubSeq(images, 2, Len(images))

\* images after images.pop(): the list without its last element
pop_rest(images) == SubSeq(images, 1, Len(images) - 1)

\* What one attempt on name can come to: raw_data raises for a name the
\* container no longer has; otherwise the transcoder or the write may raise.
Outcomes(name) ==
    IF name \in Names(files)
    THEN {"ok", "compress_raises", "replace_raises"}
    ELSE {"raw_data_raises"}

\* do_one, called as a slot with stk the stack below it. When the attempt
\* fails it stays in the warning dialog until CloseWarning.
do_one(stk) ==
    LET images == job_data.images
        all_images == job_data.all_images
    IN  IF Len(images) = 0 \/ progress.canceled
        THEN /\ timer_active' = FALSE
             /\ cancel_seen' = (cancel_seen \/ (Len(images) # 0 /\ progress.canceled))
             /\ do_end
             /\ stack' = Unwind(stk)
             /\ UNCHANGED <<job_data, attempted, warned>>
        ELSE LET name == images[Len(images)]
                 rest == pop_rest(images)
             IN  /\ job_data' = [job_data EXCEPT !.images = rest]
                 /\ \E outcome \in Outcomes(name) :
                        /\ attempted' = Append(attempted,
                               [name |-> name,
                                transcoded |-> outcome # "raw_data_raises",
                                replaced |-> outcome = "ok"])
                        /\ IF outcome = "ok"
                           THEN /\ files' = replace(files, name, compress_image(config.encoding_type))
                                /\ progress' = setValue(progress, Len(all_images) - Len(rest))
                                /\ stack' = Unwind(stk)
                                /\ UNCHANGED <<warned, shown>>
                           ELSE /\ warned' = Append(warned, name)
                                /\ shown' = shown \cup {"Image Resize Failed"}
                                /\ stack' = Append(stk, DialogFrame(name))
                                /\ UNCHANGED <<files, progress>>
                 /\ UNCHANGED <<timer_active, ends, hooks, cancel_seen>>

\* The timer fires in the running event loop: timeout is emitted and the
\* first connected slot is called.
Timeout ==
    /\ timer_active
    /\ EventLoopRunning
    /\ do_one(Append(stack, EmitFrame(connections - 1)))
    /\ UNCHANGED <<book_open, config, connections, cancel_clicked, invocations,
                   empty_aborts>>
    /\ UNCHANGED detVars

\* The emission goes on to its next connected slot, whether or not the timer
\* has been stopped meanwhile.
NextSlot ==
    /\ SlotPending
    /\ do_one(Append(Pop(stack), EmitFrame(Top(stack).left - 1)))
    /\ UNCHANGED <<book_open, config, connections, cancel_clicked, invocations,
                   empty_aborts>>
    /\ UNCHANGED detVars

\* The user dismisses the warning dialog: do_one goes on at line 132.
CloseWarning ==
    /\ stack # <<>>
    /\ Top(stack).kind = "dialog"
    /\ progress' = setValue(progress, Len(job_data.all_images) - Len(job_data.images))
    /\ stack' = Unwind(Pop(stack))
    /\ UNCHANGED <<book_open, files, config, job_data, timer_active, connections,
                   attempted, warned, ends, hooks, cancel_seen, cancel_clicked,
                   shown, invocations, empty_aborts>>
    /\ UNCHANGED detVars

\* The user presses Stop on the progress dialog. An open warning dialog is
\* application-modal and keeps the Stop button out of reach.
Cancel ==
    /\ timer_active
    /\ stack = <<>>
    /\ ~progress.canceled
    /\ progress' = [progress EXCEPT !.canceled = TRUE]
    /\ cancel_clicked' = TRUE
    /\ UNCHANGED <<book_open, files, config, job_data, timer_active, connections,
                   stack, attempted, warned, ends, hooks, cancel_seen, shown,
                   invocations, empty_aborts>>
    /\ UNCHANGED detVars

Next == ask_user \/ Timeout \/ NextSlot \/ CloseWarning \/ Cancel

Spec == Init /\ [][Next]_vars

\* ------------------------------------------------------- detector harness
\* get_image_type applied to byte strings of every length up to MaxDataLen:
\* signatures, near-misses and other bytes, followed by varying payload.
Payloads == {
    [i \in 1..MaxDataLen |-> 0],
    [i \in 1..MaxDataLen |-> 1],
    [i \in 1..MaxDataLen |-> IF i \in 9..12 THEN WEBP_SIG[i - 8] ELSE 0] }

Heads == {
    <<>>,
    JPEG_SIG,
    <<255, 216, 0>>,
    PNG_SIG,
    <<137, 80, 78, 71, 13, 10, 26, 0>>,
    GIF87_SIG,
    GIF89_SIG,
    <<71, 73, 70, 56, 56, 97>>,
    RIFF_SIG,
    RIFF_SIG \o <<36, 0, 0, 0>> \o WEBP_SIG,
    RIFF_SIG \o <<36, 0, 0, 0, 87, 65, 86, 69>>,
    <<82, 73, 70, 88>>,
    <<104, 101, 108, 108, 111>> }

Overlay(head, payload) ==
    [i \in 1..MaxDataLen |-> IF i <= Len(head) THEN head[i] ELSE payload[i]]

DetectorInputs ==
    {Take(Overlay(h, p), n) : h \in Heads, p \in Payloads, n \in 0..MaxDataLen}

InitDetect ==
    /\ book_open = FALSE
    /\ files = <<>>
    /\ config = NoConfig
    /\ job_data = NoJob
    /\ progress = NoProgress
    /\ timer_active = FALSE
    /\ connections = 0
    /\ stack = <<>>
    /\ attempted = <<>>
    /\ warned = <<>>
    /\ ends = <<>>
    /\ hooks = <<>>
    /\ cancel_seen = FALSE
    /\ cancel_clicked = FALSE
    /\ shown = {}
    /\ invocations = 0
    /\ empty_aborts = 0
    /\ det_data \in DetectorInputs
    /\ det_result = None
    /\ det_pc = "ready"

Detect ==
    /\ det_pc = "ready"
    /\ det_result' = get_image_type(det_data)
    /\ det_pc' = "done"
    /\ UNCHANGED det_data
    /\ UNCHANGED runVars

NextDetect == Detect

SpecDetect == InitDetect /\ [][NextDetect]_vars

\* the bytes of sig stand in data from offset off (0-based) on
HasSig(data, sig, off) ==
    /\ Len(data) >= off + Len(sig)
    /\ \A i \in 1..Len(sig) : data[off + i] = sig[i]

IsJpeg(data) == HasSig(data, JPEG_SIG, 0)
IsPng(data) == HasSig(data, PNG_SIG, 0)
IsGif(data) == HasSig(data, GIF87_SIG, 0) \/ HasSig(data, GIF89_SIG, 0)
IsWebp(data) == HasSig(data, RIFF_SIG, 0) /\ HasSig(data, WEBP_SIG, 8)

\* C10 as stated: signature bytes followed by ANY trailing payload (also one
\* that leaves the string shorter than 12 bytes) give the type, and bytes
\* that match no signature give none.
C10_AnyPayload ==
    det_pc = "done" =>
        /\ IsJpeg(det_data) => det_result = "jpeg"
        /\ IsPng(det_data) => det_result = "png"
        /\ IsGif(det_data) => det_result = "gif"
        /\ IsWebp(det_data) => det_result = "webp"
        /\ (~IsJpeg(det_data) /\ ~IsPng(det_data) /\ ~IsGif(det_data) /\ ~IsWebp(det_data))
               => det_result = None

\* C10 amended: for byte strings of at least 12 bytes, a JPEG, PNG, GIF or
\* WebP signature followed by arbitrary payload gives the corresponding type;
\* bytes of any length that match no signature give none.
C10_Detector ==
    det_pc = "done" =>
        /\ (Len(det_data) >= HeaderLen /\ IsJpeg(det_data)) => det_result = "jpeg"
        /\ (Len(det_data) >= HeaderLen /\ IsPng(det_data)) => det_result = "png"
        /\ (Len(det_data) >= HeaderLen /\ IsGif(det_data)) => det_result = "gif"
        /\ (Len(det_data) >= HeaderLen /\ IsWebp(det_data)) => det_result = "webp"
        /\ (~IsJpeg(det_data) /\ ~IsPng(det_data) /\ ~IsGif(det_data) /\ ~IsWebp(det_data))
               => det_result = None

\* a GIF89a signature with non-zero payload behind it was detected as gif
C10_Witness ==
    /\ det_pc = "done"
    /\ IsGif(det_data)
    /\ HasSig(det_data, GIF89_SIG, 0)
    /\ Len(det_data) > HeaderLen
    /\ det_data[HeaderLen + 1] = 1
    /\ det_result = "gif"

\* ------------------------------------------------------------------ claims
Range(q) == {q[i] : i \in 1..Len(q)}

Recognized == {"WebP", "JPEG", "PNG"}

ExtOf(encoding_type) ==
    IF encoding_type = "WebP" THEN EXT_WEBP
    ELSE IF encoding_type = "JPEG" THEN EXT_JPG
    ELSE EXT_PNG

\* a run was started and has come to rest: timer stopped, no call pending
RunOver == job_data.assigned /\ ~timer_active /\ stack = <<>>

\* the attempts of this run in which the transcoder or the write raised
Failures == {i \in 1..Len(attempted) : attempted[i].transcoded /\ ~attempted[i].replaced}

A_DAT == <<"a", ".", "d", "a", "t">>
B_PNG == <<"b", ".", "p", "n", "g">>
C_TXT == <<"c", ".", "t", "x", "t">>
X_GIF == <<"x", ".", "g", "i", "f">>
A_WEBP == <<"a", ".", "w", "e", "b", "p">>
B_WEBP == <<"b", ".", "w", "e", "b", "p">>

\* C1: in a finished run that was never cancelled and in which exactly one
\* image k failed (transcoder or write raised), every other detected image
\* was transcoded and replaced, exactly one warning was reported and it names
\* k, and the progress value stands at N + 1.
C1_FailureIsolation ==
    (/\ RunOver
     /\ ~cancel_clicked
     /\ Cardinality(Failures) = 1
     /\ \A i \in 1..Len(attempted) : attempted[i].transcoded)
    => LET k == attempted[CHOOSE i \in Failures : TRUE].name
       IN  /\ {attempted[i].name : i \in 1..Len(attempted)} = Range(job_data.all_images)
           /\ \A i \in 1..Len(attempted) : attempted[i].name # k => attempted[i].replaced
           /\ warned = <<k>>
           /\ Len(ends) >= 1
           /\ progress.value = Len(job_data.all_images) + 1

\* C2: once do_one has observed the cancel signal, no image of that run is
\* transcoded or replaced any more.
C2_NoWorkAfterCancel ==
    [][(cancel_seen /\ cancel_seen' /\ Len(attempted') > Len(attempted))
        => ~attempted'[Len(attempted')].transcoded]_vars

C4_RenameMap ==
    \A i \in 1..Len(ends) :
        LET e == ends[i]
            ext == ExtOf(e.encoding_type)
            changed == {n \in Range(e.all_images) : replace_extension(n, ext) # n}
        IN  /\ e.all_images = job_data.all_images
            /\ e.encoding_type \in Recognized =>
                   /\ DOMAIN e.replace_map = changed
                   /\ \A n \in changed : e.replace_map[n] = replace_extension(n, ext)
            /\ (e.encoding_type = "WebP" /\ e.all_images = <<A_DAT, B_PNG>>) =>
                   e.replace_map = (A_DAT :> A_WEBP) @@ (B_PNG :> B_WEBP)
            /\ \A j \in 1..Len(ends) : ends[j].replace_map = e.replace_map

\* a run with a failed image, an image never processed (cancelled) and a
\* replaced one, whose rename map nevertheless covers all three
C4_Witness ==
    /\ Len(ends) >= 1
    /\ ends[1].encoding_type \in Recognized
    /\ Len(job_data.images) >= 1
    /\ Failures # {}
    /\ \E i \in 1..Len(attempted) : attempted[i].replaced
    /\ DOMAIN ends[1].replace_map = Range(job_data.all_images)

\* C5: no key of a map handed to rename_files is mapped to itself.
C5_NoIdentity ==
    \A i \in 1..Len(ends) :
        \A k \in DOMAIN ends[i].replace_map : ends[i].replace_map[k] # k

\* a map was built that leaves out a detected name already carrying the
\* target extension and renames another
C5_Witness ==
    /\ Len(ends) >= 1
    /\ ends[1].encoding_type \in Recognized
    /\ DOMAIN ends[1].replace_map # {}
    /\ \E n \in Range(ends[1].all_images) :
           /\ n \notin DOMAIN ends[1].replace_map
           /\ replace_extension(n, ExtOf(ends[1].encoding_type)) = n

\* C6: whenever do_end runs with an encoding that is none of WebP, JPEG, PNG,
\* the map is empty, rename_files raises nothing, no file changes its name or
\* content, progress goes to its maximum, and show-diff and apply-update are
\* signalled.
C6_UnrecognizedEncoding ==
    [][(Len(ends') = Len(ends) + 1 /\ config.encoding_type \notin Recognized)
        => /\ ends'[Len(ends')].replace_map = EmptyMap
           /\ ~ends'[Len(ends')].raised
           /\ files' = files
           /\ shown' = shown
           /\ progress'.value = progress.maximum
           /\ progress.maximum = Len(job_data.all_images) + 1
           /\ hooks' = hooks \o <<"rename_files", "show_current_diff",
                                  "apply_container_update_to_gui">>]_vars

\* a run with an unrecognized encoding was finalized over a book whose names
\* would all have changed under a recognized one
C6_Witness ==
    /\ RunOver
    /\ config.encoding_type = "GIF"
    /\ Len(ends) = 1
    /\ Names(files) = {A_DAT, B_PNG}
    /\ progress.value = 3

\* C7: as long as the scan of the book finds no image, no job state exists,
\* no progress dialog was created, the timer never ran and has no slot, do_one
\* and do_end never executed, and the files are as they were opened.
C7_ZeroImages ==
    get_images_from_collection(files) = <<>> =>
        /\ job_data = NoJob
        /\ progress = NoProgress
        /\ ~timer_active
        /\ connections = 0
        /\ stack = <<>>
        /\ attempted = <<>>
        /\ warned = <<>>
        /\ ends = <<>>
        /\ files \in Books \cup {<<>>}
        /\ invocations = empty_aborts

\* the tool was confirmed on a book without images
C7_Witness ==
    /\ book_open
    /\ files # <<>>
    /\ empty_aborts > 0
    /\ job_data = NoJob

\* C8: an invocation that found no image has shown the user a message.
C8_UserInformed ==
    (empty_aborts > 0 /\ invocations = empty_aborts) => shown # {}

\* the header of a file as the scan reads it is one the detector knows
RecognizedFile(f) ==
    LET header == Take(f.data, HeaderLen)
    IN  /\ f.readable
        /\ Len(header) >= HeaderLen
        /\ IsJpeg(header) \/ IsPng(header) \/ IsGif(header) \/ IsWebp(header)

\* C9: the scan of a confirmed invocation returns exactly the names whose
\* first 12 bytes the detector recognizes, each once, whatever the extension;
\* unreadable entries are skipped and the scan goes on; a.dat (JPEG bytes),
\* b.png (PNG bytes), c.txt (text) gives exactly a.dat and b.png.
C9_Scanner ==
    [][invocations' = invocations + 1 =>
        LET found == {files[i].name : i \in {j \in 1..Len(files) : RecognizedFile(files[j])}}
        IN  /\ found = {} => (empty_aborts' = empty_aborts + 1 /\ job_data' = job_data)
            /\ found # {} =>
                   /\ empty_aborts' = empty_aborts
                   /\ Range(job_data'.all_images) = found
                   /\ Len(job_data'.all_images) = Cardinality(found)
                   /\ job_data'.images = job_data'.all_images
            /\ [i \in 1..Len(files) |-> files[i].name] = <<A_DAT, B_PNG, C_TXT>> =>
                   job_data'.all_images = <<A_DAT, B_PNG>>]_vars

\* a run started on a book with an unreadable x.gif before a detected file
\* without an image extension
C9_Witness ==
    /\ job_data.assigned
    /\ attempted = <<>>
    /\ timer_active
    /\ \E i \in 1..Len(files) : files[i].name = X_GIF /\ ~files[i].readable
    /\ <<"i", ".", "d", "/", "x">> \in Range(job_data.all_images)
    /\ X_GIF \notin Range(job_data.all_images)

\* C11: for every byte string shorter than 12 bytes get_image_type returns
\* none, also when the bytes begin with a complete supported signature.
C11_ShortInput ==
    (det_pc = "done" /\ Len(det_data) < 12) => det_result = None

\* a string of fewer than 12 bytes that holds the whole PNG signature was
\* given to the detector, which returned none
C11_Witness ==
    /\ det_pc = "done"
    /\ Len(det_data) < 12
    /\ IsPng(det_data)
    /\ det_result = None

Count(q, x) == Cardinality({i \in 1..Len(q) : q[i] = x})

\* C12: once the tool has been confirmed, commit-pending-edits and
\* create-undo-savepoint have each been called exactly once in this
\* invocation, in that order and ahead of every other hook; no file is
\* replaced or renamed before them; and they are called by a confirmed
\* invocation only (not without a book, not when the dialog is cancelled).
C12_HookOrder ==
    /\ [](/\ invocations = 0 => hooks = <<>>
          /\ invocations > 0 =>
                 /\ Len(hooks) >= 2
                 /\ hooks[1] = "commit_all_editors_to_container"
                 /\ hooks[2] = "add_savepoint"
                 /\ Count(hooks, "commit_all_editors_to_container") = 1
                 /\ Count(hooks, "add_savepoint") = 1)
    /\ [][/\ files' # files =>
                 /\ Len(hooks) >= 2
                 /\ hooks[1] = "commit_all_editors_to_container"
                 /\ hooks[2] = "add_savepoint"
                 /\ invocations' = invocations
          /\ invocations' = invocations =>
                 /\ Count(hooks', "commit_all_editors_to_container")
                        = Count(hooks, "commit_all_editors_to_container")
                 /\ Count(hooks', "add_savepoint") = Count(hooks, "add_savepoint")
          /\ invocations' # invocations =>
                 /\ book_open
                 /\ hooks' = <<"commit_all_editors_to_container", "add_savepoint">>]_vars

\* a confirmed run has replaced an image and renamed files, after its two
\* leading hooks
C12_Witness ==
    /\ invocations > 0
    /\ \E i \in 1..Len(attempted) : attempted[i].replaced
    /\ Len(hooks) >= 3
    /\ hooks[3] = "rename_files"
    /\ Len(ends) >= 1
    /\ ~ends[1].raised
    /\ DOMAIN ends[1].replace_map # {}

\* C13: pending is always a subset (the not yet popped front) of all, all
\* never changes while the run lasts, and count(all) = count(pending) +
\* count(images attempted so far).
C13_JobState ==
    /\ [](/\ Range(job_data.images) \subseteq Range(job_data.all_images)
          /\ Len(job_data.images) <= Len(job_data.all_images)
          /\ job_data.images = SubSeq(job_data.all_images, 1, Len(job_data.images))
          /\ Len(job_data.all_images) = Len(job_data.images) + Len(attempted))
    /\ [][invocations' = invocations => job_data'.all_images = job_data.all_images]_vars

\* midway through a run over three images: one attempted and failed, one
\* attempted and replaced, one still pending
C13_Witness ==
    /\ Len(job_data.all_images) = 3
    /\ Len(job_data.images) = 1
    /\ Len(attempted) = 2
    /\ \E i \in 1..2 : attempted[i].replaced
    /\ \E i \in 1..2 : ~attempted[i].replaced

InDialog == \E i \in 1..Len(stack) : stack[i].kind = "dialog"

\* C14: the progress maximum is count(images) + 1; every step leaves the
\* value at count(all) - count(pending); the value is at the maximum only
\* after the finalizer has run; and once at the maximum it stays there for
\* the rest of the run.
C14_Progress ==
    /\ [](progress.created =>
              /\ progress.maximum = Len(job_data.all_images) + 1
              /\ progress.value = progress.maximum => Len(ends) >= 1)
    /\ [][/\ (invocations' = invocations /\ Len(attempted') > Len(attempted)
                  /\ Len(stack') <= Len(stack))
              => progress'.value = Len(job_data'.all_images) - Len(job_data'.images)
          /\ (Len(stack') < Len(stack) /\ attempted' = attempted /\ ends' = ends)
              => progress'.value = Len(job_data'.all_images) - Len(job_data'.images)
          /\ (invocations' = invocations /\ progress.created
                  /\ progress.value = progress.maximum)
              => progress'.value = progress'.maximum]_vars

\* C15: while a step is in progress (do_one waits in its warning dialog) no
\* other invocation of do_one begins: no image is popped and no finalization
\* runs.
C15_OneStepAtATime ==
    [][InDialog => (attempted' = attempted /\ ends' = ends /\ timer_active' = timer_active)]_vars

\* C16: the timer is stopped exactly when pending is empty or cancellation is
\* observed, and once it is stopped no further image of that run is popped.
C16_StopsAndStaysStopped ==
    [][/\ (timer_active /\ ~timer_active')
              => (Len(job_data.images) = 0 \/ progress.canceled)
       /\ (~timer_active /\ invocations' = invocations)
              => Len(attempted') = Len(attempted)]_vars

FileNames(fs) == [i \in 1..Len(fs) |-> fs[i].name]

\* C17: the attempt of a step changes no file name and the content of at most
\* the popped name; a failed attempt changes no file at all and leaves the
\* image in all; and the rest of a failed step, after its warning, changes no
\* file either.
C17_StepFrame ==
    [][/\ (invocations' = invocations /\ Len(attempted') = Len(attempted) + 1) =>
              LET a == attempted'[Len(attempted')]
              IN  /\ a.name = job_data.images[Len(job_data.images)]
                  /\ FileNames(files') = FileNames(files)
                  /\ \A i \in 1..Len(files) :
                         files[i].name # a.name => files'[i] = files[i]
                  /\ ~a.replaced => files' = files
                  /\ a.replaced => \E i \in 1..Len(files) :
                         /\ files[i].name = a.name
                         /\ files'[i].data = compress_image(config.encoding_type)
                  /\ job_data'.all_images = job_data.all_images
                  /\ a.name \in Range(job_data'.all_images)
       /\ (Len(stack') < Len(stack) /\ attempted' = attempted /\ ends' = ends)
              => files' = files]_vars

\* in a book of two images and a text file, one image was replaced and the
\* attempt on the other failed, which is still in its warning dialog
C17_Witness ==
    /\ Len(files) = 3
    /\ Len(attempted) = 2
    /\ attempted[1].replaced
    /\ attempted[2].transcoded
    /\ ~attempted[2].replaced
    /\ InDialog
    /\ ends = <<>>

\* C18: in one run no image is attempted twice; and when the run is over and
\* was never cancelled, every detected image was attempted exactly once and
\* reached the transcoder. Runs with several connections included.
C18_AttemptedOnce ==
    /\ \A i, j \in 1..Len(attempted) : attempted[i].name = attempted[j].name => i = j
    /\ {attempted[i].name : i \in 1..Len(attempted)} \subseteq Range(job_data.all_images)
    /\ (RunOver /\ ~cancel_clicked) =>
           /\ Len(attempted) = Len(job_data.all_images)
           /\ {attempted[i].name : i \in 1..Len(attempted)} = Range(job_data.all_images)
           /\ \A i \in 1..Len(attempted) : attempted[i].transcoded

\* a second run on the same instance (two connections), never cancelled, is
\* over and has attempted its two images
C18_Witness ==
    /\ RunOver
    /\ ~cancel_clicked
    /\ connections = 2
    /\ Len(attempted) = 2
    /\ Len(ends) >= 1

\* C19: in every map handed to rename_files no two names share a new name,
\* and no new name is the name of a detected image that keeps its name.
C19_CollisionFree ==
    \A e \in 1..Len(ends) :
        LET m == ends[e].replace_map
        IN  /\ \A k1, k2 \in DOMAIN m : m[k1] = m[k2] => k1 = k2
            /\ \A k \in DOMAIN m :
                   m[k] \notin (Range(ends[e].all_images) \ DOMAIN m)

====
